---- MODULE Spec2Model ----
(***************************************************************************)
(* Medicine-dispenser dose log API (src/app.py, src/med_disp/app.py).      *)
(*                                                                         *)
(* State: the dose_log table, the table's id sequence, the server clock    *)
(* and the response of the request handled last.  Requests are handled     *)
(* one at a time (synchronous Flask handlers); every handler is one        *)
(* action.  Time is discrete: a calendar day has SlotsPerDay instants,     *)
(* slot 0 is 00:00:00, slot SlotsPerDay-2 is 23:59:59 and the last slot    *)
(* lies in the final second of the day, after 23:59:59.                    *)
(***************************************************************************)
EXTENDS Integers, Sequences, FiniteSets, TLC

VARIABLES dose_log, id_seq, now, resp

vars == <<dose_log, id_seq, now, resp>>

(* ------------------------------ bounds --------------------------------- *)

SlotsPerDay == 3

MaxDay == 1

MaxRows == 2

MaxGap == 1

MaxStatDay == 2

MaxStatRows == 9

(* ------------------------- program constants --------------------------- *)

\* src/app.py:50  request.args.get('limit', 100)
DefaultLimit == 100

\* src/app.py:101  request.args.get('days', 30)
DefaultDays == 30

\* src/app.py:152  if taken_doses >= 3
FullDay == 3

\* Python None / SQL NULL for an integer-valued cell.
None == 0 - 1

\* Python None / SQL NULL for a text-valued cell.
NoneStr == "None"

(* ------------------------------- time ---------------------------------- *)

\* DATE(timestamp)
Date(ts) == ts \div SlotsPerDay

\* 'YYYY-MM-DD' compared with a timestamp: that day at 00:00:00
Midnight(d) == d * SlotsPerDay

\* Faulty variant: the end date without ' 23:59:59': the day's first instant
LastSecondAsMidnight(d) == d * SlotsPerDay

\* end_date + ' 23:59:59'
LastSecond(d) == d * SlotsPerDay + (SlotsPerDay - 2)

\* datetime.isoformat(): the text "<date>T<time of day>"
IsoFormat(ts) == [date |-> ts \div SlotsPerDay, time |-> ts % SlotsPerDay]

\* end_date - timedelta(days=days)
MinusDays(ts, days) == ts - days * SlotsPerDay

Min(a, b) == IF a < b THEN a ELSE b

(* ------------------------- requests, responses -------------------------- *)

\* The JSON bodies POST /log_dose is sent: no body, {}, an object without
\* event_type, and objects with event_type (dose_number given or not).
Body(json, keys, event_type, dose_number) ==
    [json |-> json, keys |-> keys, event_type |-> event_type, dose_number |-> dose_number]

NoBody == Body("none", {}, NoneStr, None)

EmptyBody == Body("object", {}, NoneStr, None)

InvalidBodies == {NoBody, EmptyBody, Body("object", {"dose_number"}, NoneStr, 1)}

ValidBodies ==
    { Body("object", {"event_type"}, "TAKEN", None),
      Body("object", {"event_type", "dose_number"}, "MISSED", 2) }

StatBodies ==
    { Body("object", {"event_type"}, "TAKEN", None),
      Body("object", {"event_type"}, "MISSED", None) }

\* jsonify(...), status  as returned by a handler; conn is the state, at the
\* return, of the connection the handler obtained from get_db_connection():
\* "none" (never opened), "open" or "closed".
Response(handler, status, conn, req, body) ==
    [handler |-> handler, status |-> status, conn |-> conn, req |-> req, body |-> body]

Idle == Response("idle", 0, "none", 0, 0)

ErrorBody(message) == [status |-> "error", message |-> message]

(* ------------------------------ dose_log ------------------------------- *)

\* The table's defaults for the columns the INSERT leaves out: id is drawn
\* from the table's sequence, timestamp is the server's current time.
NextVal(seq) == seq + 1

DefaultTimestamp(clock) == clock

\* Faulty variant: the insert binds no dose_number
InsertIntoDroppingDose(log, id, event_type, dose_number, ts) ==
    Append(log, [id |-> id, event_type |-> event_type,
                 dose_number |-> None, timestamp |-> ts])

\* Faulty variant: the statement overwrites the newest row instead of adding one
InsertIntoReplacingLast(log, id, event_type, dose_number, ts) ==
    LET row == [id |-> id, event_type |-> event_type,
                dose_number |-> dose_number, timestamp |-> ts]
    IN  IF log = <<>> THEN <<row>> ELSE [log EXCEPT ![Len(log)] = row]

\* INSERT INTO dose_log (event_type, dose_number) VALUES (%s, %s)
InsertInto(log, id, event_type, dose_number, ts) ==
    Append(log, [id |-> id, event_type |-> event_type,
                 dose_number |-> dose_number, timestamp |-> ts])

(* ---------------------------- POST /log_dose --------------------------- *)

\* Faulty variant: only "not data" is tested
IsInvalidNoKeyCheck(data) == data.json = "none" \/ data.keys = {}

\* not data or 'event_type' not in data
IsInvalid(data) ==
    \/ data.json = "none"
    \/ data.keys = {}
    \/ "event_type" \notin data.keys

\* data.get('event_type'), data.get('dose_number')
GetEventType(data) == IF "event_type" \in data.keys THEN data.event_type ELSE NoneStr

GetDoseNumber(data) == IF "dose_number" \in data.keys THEN data.dose_number ELSE None

\* The calls of log_dose's try block, in order; fail names the call that
\* raises ("none": no call raises).
LogDoseCalls == <<"connect", "cursor", "execute", "commit", "cur_close", "conn_close">>

LogDoseFails == {"none", "connect", "execute", "commit", "cur_close", "conn_close"}

CallIndex(calls, name) == CHOOSE i \in 1..Len(calls) : calls[i] = name

\* call `name` returned normally: no earlier call, nor it, raised
Done(calls, fail, name) ==
    fail = "none" \/ CallIndex(calls, name) < CallIndex(calls, fail)

ConnAt(calls, fail) ==
    IF ~Done(calls, fail, "connect") THEN "none"
    ELSE IF Done(calls, fail, "conn_close") THEN "closed"
    ELSE "open"

\* The handler, whole.  The row's timestamp is the server's time at the
\* INSERT; handling the request takes time, so the clock has moved on when the
\* next request arrives and no two rows carry the same timestamp.  A raise
\* before commit leaves the table as it was (the id drawn at execute is used
\* up); a raise at cur.close() or conn.close() comes after the commit.
LogDoseHandler(name, data, fail) ==
    IF IsInvalid(data)
    THEN /\ resp' = Response(name, 400, "none", data, ErrorBody("Invalid data"))
         /\ UNCHANGED <<dose_log, id_seq, now>>
    ELSE LET event_type == GetEventType(data)
             dose_number == GetDoseNumber(data)
             executed == Done(LogDoseCalls, fail, "execute")
             committed == Done(LogDoseCalls, fail, "commit")
             id == NextVal(id_seq)
         IN  /\ id_seq' = IF executed THEN id ELSE id_seq
             /\ dose_log' = IF committed
                            THEN InsertInto(dose_log, id, event_type, dose_number,
                                            DefaultTimestamp(now))
                            ELSE dose_log
             /\ now' = IF executed THEN now + 1 ELSE now
             /\ resp' = IF fail = "none"
                        THEN Response(name, 201, ConnAt(LogDoseCalls, fail), data,
                                      [status |-> "success", message |-> "Log received"])
                        ELSE Response(name, 500, ConnAt(LogDoseCalls, fail), data,
                                      ErrorBody(fail))

log_dose(data, fail) == LogDoseHandler("log_dose", data, fail)

med_disp_log_dose(data, fail) == LogDoseHandler("med_disp_log_dose", data, fail)


(* ---------------------------- GET /api/events -------------------------- *)

\* A query-string argument: absent, present but empty (''), a well-formed
\* value (a date, an integer), or text the database cannot read as one.
Arg(kind, val) == [kind |-> kind, val |-> val]

Absent == Arg("absent", 0)

EmptyArg == Arg("empty", 0)

BadArg == Arg("bad", 0)

\* if start_date: / if end_date:   ('' and None are falsy)
Given(arg) == arg.kind \in {"value", "bad"}

\* request.args.get('limit', 100)
LimitOf(arg) == IF arg.kind = "absent" THEN Arg("value", DefaultLimit) ELSE arg

\* WHERE 1=1 [AND timestamp >= start_date] [AND timestamp <= end_date 23:59:59]
Where(row, start_date, end_date) ==
    /\ Given(start_date) => row.timestamp >= Midnight(start_date.val)
    /\ Given(end_date) => row.timestamp <= LastSecond(end_date.val)

\* The sequences that list the rows of S by timestamp, newest first (rows of
\* equal timestamp come in either order).
RECURSIVE OrderByTimestampDesc(_)
OrderByTimestampDesc(S) ==
    IF S = {} THEN {<<>>}
    ELSE LET newest == {r \in S : \A q \in S : q.timestamp <= r.timestamp}
         IN  UNION {{<<r>> \o rest : rest \in OrderByTimestampDesc(S \ {r})} : r \in newest}

\* Faulty variant: the cap is off by one
LimitOffByOne(rows, n) == SubSeq(rows, 1, Min(n + 1, Len(rows)))

\* LIMIT n
Limit(rows, n) == SubSeq(rows, 1, Min(n, Len(rows)))

\* cur.execute(query, params) raises: a parameter the database rejects
QueryRejected(start_date, end_date, limit) ==
    \/ start_date.kind = "bad"
    \/ end_date.kind = "bad"
    \/ limit.kind \in {"bad", "empty"}
    \/ limit.kind = "value" /\ limit.val < 0

\* the dict built from one fetched row
EventJson(row) ==
    [id |-> row.id, event_type |-> row.event_type,
     dose_number |-> row.dose_number, timestamp |-> IsoFormat(row.timestamp)]

QueryCalls == <<"connect", "cursor", "execute", "fetch", "cur_close", "conn_close">>

QueryFails == {"none", "connect", "execute", "conn_close"}

get_events(start_date, end_date, limit_arg, fail) ==
    LET limit == LimitOf(limit_arg)
        req == [start_date |-> start_date, end_date |-> end_date, limit |-> limit_arg]
        raised == IF fail # "connect" /\ QueryRejected(start_date, end_date, limit)
                  THEN "execute" ELSE fail
        matching == {dose_log[i] : i \in {j \in 1..Len(dose_log) :
                                             Where(dose_log[j], start_date, end_date)}}
    IN  /\ UNCHANGED <<dose_log, id_seq, now>>
        /\ IF raised # "none"
           THEN resp' = Response("get_events", 500, ConnAt(QueryCalls, raised), req,
                                 ErrorBody(raised))
           ELSE \E ordered \in OrderByTimestampDesc(matching) :
                  LET rows == Limit(ordered, limit.val)
                      events == [i \in 1..Len(rows) |-> EventJson(rows[i])]
                  IN  resp' = Response("get_events", 200, "closed", req,
                                       [status |-> "success", count |-> Len(events),
                                        events |-> events])


(* -------------------------- GET /api/statistics ------------------------ *)

\* WHERE timestamp >= start_date AND timestamp <= end_date
InWindow(log, start_date, end_date) ==
    {log[i] : i \in {j \in 1..Len(log) :
                        log[j].timestamp >= start_date /\ log[j].timestamp <= end_date}}

\* SUM(CASE WHEN event_type = t THEN 1 ELSE 0 END): NULL over no rows
SumCase(S, t) == IF S = {} THEN None ELSE Cardinality({r \in S : r.event_type = t})

\* x or 0
OrZero(x) == IF x = None THEN 0 ELSE x

\* SELECT COUNT(*), SUM(... 'TAKEN' ...), SUM(... 'MISSED' ...)
CountsQuery(S) == <<Cardinality(S), SumCase(S, "TAKEN"), SumCase(S, "MISSED")>>

\* The dates of S from index i on, newest first.
RECURSIVE DatesDesc(_)
DatesDesc(D) ==
    IF D = {} THEN <<>>
    ELSE LET d == CHOOSE x \in D : \A y \in D : y <= x
         IN  <<d>> \o DatesDesc(D \ {d})

\* SELECT DATE(timestamp), COUNT(*), SUM(... 'TAKEN' ...) GROUP BY DATE(timestamp)
\* ORDER BY date DESC
DailyQuery(S) ==
    LET dates == DatesDesc({Date(r.timestamp) : r \in S})
    IN  [i \in 1..Len(dates) |->
            LET day == {r \in S : Date(r.timestamp) = dates[i]}
            IN  <<dates[i], Cardinality(day), SumCase(day, "TAKEN")>>]

\* Faulty variant: an incomplete day does not reset temp_streak
StreakStepNoReset(taken_doses, temp_streak, best_streak) ==
    IF taken_doses >= FullDay
    THEN <<temp_streak + 1,
           IF temp_streak + 1 > best_streak THEN temp_streak + 1 ELSE best_streak>>
    ELSE <<temp_streak, best_streak>>

\* One turn of the loop over daily_data: the pair <<temp_streak, best_streak>>
StreakStep(taken_doses, temp_streak, best_streak) ==
    IF taken_doses >= FullDay
    THEN <<temp_streak + 1,
           IF temp_streak + 1 > best_streak THEN temp_streak + 1 ELSE best_streak>>
    ELSE <<0, best_streak>>

\* for day_data in daily_data: ...   from row i on
RECURSIVE StreakScan(_, _, _, _)
StreakScan(daily_data, i, temp_streak, best_streak) ==
    IF i > Len(daily_data) THEN <<temp_streak, best_streak>>
    ELSE LET st == StreakStep(daily_data[i][3], temp_streak, best_streak)
         IN  StreakScan(daily_data, i + 1, st[1], st[2])

\* Faulty variant: the percentage is cut to 2 decimals, not rounded
AdherenceTruncated(taken, total) ==
    IF total > 0 THEN (taken * 10000) \div total ELSE 0

\* round((taken / total * 100) if total > 0 else 0, 2), in hundredths of a
\* percent (77.78 is 7778)
Adherence(taken, total) ==
    IF total > 0 THEN (2 * taken * 10000 + total) \div (2 * total) ELSE 0

\* SELECT DATE(timestamp), event_type, COUNT(*) GROUP BY DATE(timestamp), event_type
\* folded into events_by_day
EventsByDay(S) ==
    [d \in {Date(r.timestamp) : r \in S} |->
        [taken  |-> Cardinality({r \in S : Date(r.timestamp) = d /\ r.event_type = "TAKEN"}),
         missed |-> Cardinality({r \in S : Date(r.timestamp) = d /\ r.event_type = "MISSED"})]]

StatFails == {"none", "connect", "execute", "conn_close"}

get_statistics(days_arg, fail) ==
    LET req == [days |-> days_arg]
    IN  /\ UNCHANGED <<dose_log, id_seq, now>>
        /\ IF days_arg.kind \in {"bad", "empty"}
           THEN \* int(...) raises before a connection is opened
                resp' = Response("get_statistics", 500, "none", req, ErrorBody("int"))
           ELSE IF fail # "none"
           THEN resp' = Response("get_statistics", 500, ConnAt(QueryCalls, fail), req,
                                 ErrorBody(fail))
           ELSE LET days == IF days_arg.kind = "absent" THEN DefaultDays ELSE days_arg.val
                    end_date == now
                    start_date == MinusDays(end_date, days)
                    S == InWindow(dose_log, start_date, end_date)
                    counts == CountsQuery(S)
                    total == OrZero(counts[1])
                    taken == OrZero(counts[2])
                    missed == OrZero(counts[3])
                    streaks == StreakScan(DailyQuery(S), 1, 0, 0)
                IN  resp' = Response("get_statistics", 200, "closed", req,
                        [status |-> "success", period_days |-> days,
                         statistics |->
                            [total_doses |-> total, doses_taken |-> taken,
                             doses_missed |-> missed,
                             adherence_percentage |-> Adherence(taken, total),
                             current_streak |-> streaks[1], best_streak |-> streaks[2]],
                         daily_breakdown |-> EventsByDay(S)])

(* ------------------------- GET /dashboard, GET / ------------------------ *)

\* send_file('dashboard.html'), 404 when it raises
dashboard(found) ==
    /\ UNCHANGED <<dose_log, id_seq, now>>
    /\ resp' = IF found
               THEN Response("dashboard", 200, "none", 0, 0)
               ELSE Response("dashboard", 404, "none", 0, ErrorBody("Dashboard not found"))

home ==
    /\ UNCHANGED <<dose_log, id_seq, now>>
    /\ resp' = Response("home", 200, "none", 0, [service |-> "Medicine Dispenser API"])


(* ------------------------------ the system ----------------------------- *)

Init ==
    /\ dose_log = <<>>
    /\ id_seq = 0
    /\ now = 0
    /\ resp = Idle

MaxNow == (MaxDay + 1) * SlotsPerDay - 1

\* The query strings GET /api/events is sent: every combination of
\* well-formed arguments, and each malformed argument on its own.
DateValues == {Absent} \cup {Arg("value", d) : d \in 0..MaxDay}

LimitValues == {Absent} \cup {Arg("value", n) : n \in 0..MaxRows}

EventQueries ==
    [start_date : DateValues, end_date : DateValues, limit : LimitValues]
    \cup [start_date : {EmptyArg, BadArg}, end_date : {Absent}, limit : {Absent}]
    \cup [start_date : {Absent}, end_date : {EmptyArg, BadArg}, limit : {Absent}]
    \cup [start_date : {Absent}, end_date : {Absent},
          limit : {EmptyArg, BadArg, Arg("value", 0 - 1)}]

DaysArgs == {Absent, BadArg} \cup {Arg("value", n) : n \in 0..MaxDay}

StatDaysArgs == {Absent, Arg("value", 1)}

\* Time passes between two requests.
Tick ==
    /\ resp.handler = "idle"
    /\ now < MaxNow
    /\ now' = now + 1
    /\ UNCHANGED <<dose_log, id_seq, resp>>

\* The response is sent; the next request can be handled.
ResponseSent ==
    /\ resp.handler # "idle"
    /\ resp' = Idle
    /\ UNCHANGED <<dose_log, id_seq, now>>

CanLog(fail) ==
    /\ resp.handler = "idle"
    /\ Len(dose_log) < MaxRows
    /\ now <= MaxNow
    /\ fail = "commit" => id_seq - Len(dose_log) < MaxGap

\* The POSTs sent: every body with no call raising, and one valid body with
\* each call of the handler raising.
LogDoseInputs ==
    ((InvalidBodies \cup ValidBodies) \X {"none"})
    \cup ({Body("object", {"event_type"}, "TAKEN", None)} \X LogDoseFails)

LogDose == \E in \in LogDoseInputs : CanLog(in[2]) /\ log_dose(in[1], in[2])

MedDispLogDose == \E in \in LogDoseInputs : CanLog(in[2]) /\ med_disp_log_dose(in[1], in[2])

GetEvents ==
    /\ resp.handler = "idle"
    /\ \E q \in EventQueries, fail \in QueryFails :
        /\ fail # "none" => q.start_date = Absent /\ q.end_date = Absent /\ q.limit = Absent
        /\ get_events(q.start_date, q.end_date, q.limit, fail)

GetStatistics ==
    /\ resp.handler = "idle"
    /\ \E days \in DaysArgs, fail \in StatFails :
        /\ fail # "none" => days = Absent
        /\ get_statistics(days, fail)

Dashboard == resp.handler = "idle" /\ \E found \in BOOLEAN : dashboard(found)

Home == resp.handler = "idle" /\ home

Next ==
    \/ Tick
    \/ LogDose
    \/ MedDispLogDose
    \/ GetEvents
    \/ GetStatistics
    \/ Dashboard
    \/ Home
    \/ ResponseSent

Spec == Init /\ [][Next]_vars

(* The statistics engine over longer histories: doses are logged without   *)
(* failures, up to SlotsPerDay a day, and the clock moves on by whole days. *)

NextDay ==
    /\ resp.handler = "idle"
    /\ Date(now) < MaxStatDay
    /\ now' = Midnight(Date(now) + 1)
    /\ UNCHANGED <<dose_log, id_seq, resp>>

LogDoseStats ==
    /\ resp.handler = "idle"
    /\ Len(dose_log) < MaxStatRows
    /\ Date(now) <= MaxStatDay
    /\ \E data \in StatBodies : log_dose(data, "none")

GetStatisticsStats ==
    /\ resp.handler = "idle"
    /\ \E days \in StatDaysArgs : get_statistics(days, "none")

NextStats ==
    \/ NextDay
    \/ LogDoseStats
    \/ GetStatisticsStats
    \/ ResponseSent

SpecStats == Init /\ [][NextStats]_vars


(* ============================== properties ============================= *)

LogHandlers == {"log_dose", "med_disp_log_dose"}

ConnHandlers == LogHandlers \cup {"get_events", "get_statistics"}

\* a step in which handler h answers a request
Answers(H) == resp.handler = "idle" /\ resp'.handler \in H

IsStats == resp.handler = "get_statistics" /\ resp.status = 200

IsEvents == resp.handler = "get_events" /\ resp.status = 200

\* The rows of the table inside the window the answered statistics request
\* looked at: [now - period_days, now].
WindowRows ==
    {dose_log[i] : i \in {j \in 1..Len(dose_log) :
        /\ dose_log[j].timestamp >= now - resp.body.period_days * SlotsPerDay
        /\ dose_log[j].timestamp <= now}}

PresentDates(S) == {r.timestamp \div SlotsPerDay : r \in S}

TakenOn(S, d) ==
    Cardinality({r \in S : r.timestamp \div SlotsPerDay = d /\ r.event_type = "TAKEN"})

Complete(S, d) == TakenOn(S, d) >= 3

\* the number of complete dates in the unbroken run that starts at the most
\* recent date present and goes back in time
RecentRun(S) ==
    Cardinality({d \in PresentDates(S) :
                    \A e \in PresentDates(S) : e >= d => Complete(S, e)})

\* the longest run of complete dates adjacent in the list of present dates
RunLengths(S) ==
    {0} \cup
    {Cardinality({e \in PresentDates(S) : lo <= e /\ e <= hi}) :
        <<lo, hi>> \in {p \in PresentDates(S) \X PresentDates(S) :
            /\ p[1] <= p[2]
            /\ \A e \in PresentDates(S) : (p[1] <= e /\ e <= p[2]) => Complete(S, e)}}

BestRun(S) == CHOOSE n \in RunLengths(S) : \A m \in RunLengths(S) : m <= n

\* C1: current_streak of GET /api/statistics is the length of the unbroken run
\* of complete dates counted backward from the most recent date present in the
\* window; it is 0 whenever the most recent date present is incomplete.
C1_CurrentStreakFromMostRecent ==
    IsStats => resp.body.statistics.current_streak = RecentRun(WindowRows)

\* the body is absent, or it holds no event_type key (the empty object too)
LacksEventType(data) == data.json = "none" \/ "event_type" \notin data.keys

\* C2: POST /log_dose with a body that is absent, empty or lacks event_type
\* answers 400, leaves dose_log as it was and opens no database connection.
C2_InvalidBodyRejected ==
    [][(Answers(LogHandlers) /\ LacksEventType(resp'.req))
          => /\ resp'.status = 400
             /\ dose_log' = dose_log
             /\ id_seq' = id_seq
             /\ resp'.conn = "none"]_vars

C2_Witness ==
    /\ resp.handler \in LogHandlers
    /\ resp.status = 400
    /\ resp.req.json = "object"
    /\ resp.req.keys = {"dose_number"}
    /\ Len(dose_log) > 0

\* The timestamp an event of a response carries, read back from its ISO text.
FromIso(iso) == iso.date * SlotsPerDay + iso.time

\* the date arguments of the answered GET /api/events admit timestamp ts:
\* [start_date 00:00:00, end_date 23:59:59], a bound applying only when given
AfterStart(req, ts) ==
    req.start_date.kind = "value" => ts \div SlotsPerDay >= req.start_date.val

BeforeEnd(req, ts) ==
    req.end_date.kind = "value" =>
        \/ ts \div SlotsPerDay < req.end_date.val
        \/ ts \div SlotsPerDay = req.end_date.val /\ ts % SlotsPerDay <= SlotsPerDay - 2

DatesInclude(req, ts) == AfterStart(req, ts) /\ BeforeEnd(req, ts)

RequestedLimit(req) == IF req.limit.kind = "absent" THEN 100 ELSE req.limit.val

Returned(row) ==
    \E i \in 1..Len(resp.body.events) :
        /\ resp.body.events[i].id = row.id
        /\ resp.body.events[i].event_type = row.event_type
        /\ resp.body.events[i].dose_number = row.dose_number
        /\ FromIso(resp.body.events[i].timestamp) = row.timestamp

\* a successful POST adds exactly one row, with the submitted event_type and
\* dose_number, a fresh id and the server's time
PostPersistsOneRow ==
    (Answers(LogHandlers) /\ resp'.status = 201) =>
        /\ Len(dose_log') = Len(dose_log) + 1
        /\ SubSeq(dose_log', 1, Len(dose_log)) = dose_log
        /\ LET row == dose_log'[Len(dose_log')]
           IN  /\ row.event_type = resp'.req.event_type
               /\ row.dose_number = IF "dose_number" \in resp'.req.keys
                                    THEN resp'.req.dose_number ELSE None
               /\ \A i \in 1..Len(dose_log) : dose_log[i].id # row.id
               /\ now <= row.timestamp /\ row.timestamp <= now'

\* C3 (as claimed): the row a successful POST /log_dose added is returned, with
\* event_type and dose_number unchanged, by a following GET /api/events whose
\* date filters include its timestamp.
C3_LatestReturnedAnyLimit ==
    (IsEvents /\ dose_log # <<>>
        /\ DatesInclude(resp.req, dose_log[Len(dose_log)].timestamp))
    => Returned(dose_log[Len(dose_log)])

\* C3 (amended): a successful POST /log_dose adds exactly one row carrying the
\* submitted event_type and dose_number with a server-assigned id and
\* timestamp, and a following GET /api/events whose date filters include that
\* timestamp and whose limit is at least 1 returns it unchanged.
C3_RoundTrip ==
    /\ [][PostPersistsOneRow]_vars
    /\ []((IsEvents /\ dose_log # <<>>
             /\ DatesInclude(resp.req, dose_log[Len(dose_log)].timestamp)
             /\ RequestedLimit(resp.req) >= 1)
          => Returned(dose_log[Len(dose_log)]))

C3_Witness ==
    /\ IsEvents
    /\ Len(dose_log) = 2
    /\ resp.req.limit = Arg("value", 1)
    /\ resp.req.start_date = Arg("value", 1)
    /\ dose_log[2].dose_number = 2
    /\ Returned(dose_log[2])

\* The rows the answered GET /api/events asked for, before the limit.
MatchingRows ==
    {dose_log[i] : i \in {j \in 1..Len(dose_log) :
                             DatesInclude(resp.req, dose_log[j].timestamp)}}

\* C4: a successful GET /api/events with limit N (100 when omitted) returns at
\* most N rows, newest first, they are the N newest rows matching the filters,
\* and count is the number of rows returned.
C4_LimitAndOrder ==
    IsEvents =>
        LET events == resp.body.events
            N == RequestedLimit(resp.req)
        IN  /\ Len(events) <= N
            /\ resp.body.count = Len(events)
            /\ Len(events) = Min(N, Cardinality(MatchingRows))
            /\ \A i, j \in 1..Len(events) :
                  i < j => FromIso(events[i].timestamp) > FromIso(events[j].timestamp)
            /\ \A i \in 1..Len(events) : \E r \in MatchingRows : r.id = events[i].id
            /\ \A r \in MatchingRows :
                  \/ Returned(r)
                  \/ \A i \in 1..Len(events) : r.timestamp < FromIso(events[i].timestamp)

C4_Witness ==
    /\ IsEvents
    /\ resp.req.limit = Arg("value", 1)
    /\ Cardinality(MatchingRows) = 2
    /\ resp.body.count = 1
    /\ resp.body.events[1].id = dose_log[2].id

C6_Adherence ==
    IsStats =>
        LET st == resp.body.statistics
            total == Cardinality(WindowRows)
            taken == Cardinality({r \in WindowRows : r.event_type = "TAKEN"})
            diff == st.adherence_percentage * total - taken * 100 * 100
        IN  /\ st.total_doses = total
            /\ st.doses_taken = taken
            /\ total > 0 => (2 * diff <= total /\ 0 - total <= 2 * diff)
            /\ total = 0 =>
                  /\ st.adherence_percentage = 0
                  /\ st.current_streak = 0
                  /\ st.best_streak = 0
                  /\ DOMAIN resp.body.daily_breakdown = {}

C6_Witness ==
    /\ IsStats
    /\ resp.body.statistics.total_doses = 9
    /\ resp.body.statistics.doses_taken = 7
    /\ resp.body.statistics.doses_missed = 2
    /\ resp.body.statistics.adherence_percentage = 7778

\* C7: every handler that opens a database connection has released it when
\* its request ends, on the error paths too.
C7_ConnectionReleased ==
    resp.handler \in ConnHandlers => resp.conn # "open"

\* C8: best_streak of GET /api/statistics is the greatest length of a run of
\* complete dates (at least 3 TAKEN) adjacent in the list of the dates that
\* have an event in the window; an incomplete present date breaks a run, a
\* calendar date without events does not.
C8_BestStreak ==
    IsStats => resp.body.statistics.best_streak = BestRun(WindowRows)

C8_Witness ==
    /\ IsStats
    /\ resp.body.statistics.best_streak = 2
    /\ PresentDates(WindowRows) = {0, 2}

IdsIncreasing ==
    \A i, j \in 1..Len(dose_log) : i < j => dose_log[i].id < dose_log[j].id

AppendOnlyStep ==
    \/ dose_log' = dose_log
    \/ /\ Answers(LogHandlers)
       /\ Len(dose_log') = Len(dose_log) + 1
       /\ \A i \in 1..Len(dose_log) : dose_log'[i] = dose_log[i]

\* C9: dose_log is append-only: no request but POST /log_dose changes it, a
\* POST at most appends one row and leaves the rows before it as they were,
\* and ids are unique and strictly increasing in insertion order.
C9_AppendOnly == []IdsIncreasing /\ [][AppendOnlyStep]_vars

C9_Witness ==
    /\ resp.handler = "get_statistics"
    /\ resp.status = 200
    /\ Len(dose_log) = 2
    /\ dose_log[2].id > dose_log[1].id + 1

\* C10: POST /log_dose answers 201 only if exactly one row was committed, and
\* whenever it answers 500 no row of that request has been persisted.
C10_ErrorMeansNotPersisted ==
    [][Answers(LogHandlers) =>
          /\ resp'.status = 201 => Len(dose_log') = Len(dose_log) + 1
          /\ resp'.status = 500 => dose_log' = dose_log]_vars


====
